---- MODULE Spec2Model ----
(***************************************************************************)
(* Verification model of bioluigi/parameter.py and luigibio/parameter.py:  *)
(* FileParameter.parse and SequenceFileParameter.parse.                    *)
(*                                                                         *)
(* A Python string is a sequence of one-character strings, so "/a" is      *)
(* <<"/", "a">>.  Python's None is the empty sequence: os.path.abspath     *)
(* never returns the empty string, so no stored path collides with it.     *)
(***************************************************************************)
EXTENDS Integers, Sequences, FiniteSets, TLC

\* ------------------------------------------------------------------ bounds
\* longest raw input string handed to parse
MaxLen == 3

\* ------------------------------------------------------------- vocabulary
None == <<>>
SEP == "/"
DOT == "."
Alphabet == {SEP, DOT, "a"}
Raw == UNION {[1..n -> Alphabet] : n \in 0..MaxLen}

\* ------------------------------------------------------- os.path (posix)
StartsWith(s, pre) ==
    /\ Len(s) >= Len(pre)
    /\ \A i \in 1..Len(pre) : s[i] = pre[i]

EndsWith(s, c) == Len(s) > 0 /\ s[Len(s)] = c

RECURSIVE SplitAt(_, _, _, _)
SplitAt(s, i, cur, acc) ==
    IF i > Len(s) THEN Append(acc, cur)
    ELSE IF s[i] = SEP THEN SplitAt(s, i + 1, <<>>, Append(acc, cur))
    ELSE SplitAt(s, i + 1, Append(cur, s[i]), acc)

\* str.split('/')
split(s) == SplitAt(s, 1, <<>>, <<>>)

RECURSIVE JoinFrom(_, _)
JoinFrom(comps, i) ==
    IF i > Len(comps) THEN <<>>
    ELSE IF i = Len(comps) THEN comps[i]
    ELSE comps[i] \o <<SEP>> \o JoinFrom(comps, i + 1)

\* '/'.join(comps)
sepjoin(comps) == JoinFrom(comps, 1)

DotDot == <<DOT, DOT>>

\* the loop body of posixpath.normpath
NormStep(new_comps, comp, initial_slashes) ==
    IF comp = <<>> \/ comp = <<DOT>> THEN new_comps
    ELSE IF \/ comp # DotDot
            \/ (initial_slashes = 0 /\ new_comps = <<>>)
            \/ (new_comps # <<>> /\ new_comps[Len(new_comps)] = DotDot)
         THEN Append(new_comps, comp)
    ELSE IF new_comps # <<>> THEN SubSeq(new_comps, 1, Len(new_comps) - 1)
    ELSE new_comps

RECURSIVE NormLoop(_, _, _, _)
NormLoop(comps, i, new_comps, initial_slashes) ==
    IF i > Len(comps) THEN new_comps
    ELSE NormLoop(comps, i + 1, NormStep(new_comps, comps[i], initial_slashes),
                  initial_slashes)

InitialSlashes(path) ==
    IF StartsWith(path, <<SEP, SEP>>) /\ ~StartsWith(path, <<SEP, SEP, SEP>>) THEN 2
    ELSE IF StartsWith(path, <<SEP>>) THEN 1
    ELSE 0

normpath(path) ==
    IF path = <<>> THEN <<DOT>>
    ELSE LET initial_slashes == InitialSlashes(path)
             comps == NormLoop(split(path), 1, <<>>, initial_slashes)
             body == sepjoin(comps)
             res == [i \in 1..initial_slashes |-> SEP] \o body
         IN IF res = <<>> THEN <<DOT>> ELSE res

isabs(s) == StartsWith(s, <<SEP>>)

\* posixpath.join(a, b)
join(a, b) ==
    IF StartsWith(b, <<SEP>>) THEN b
    ELSE IF a = <<>> \/ EndsWith(a, SEP) THEN a \o b
    ELSE a \o <<SEP>> \o b

\* os.path.abspath(x) in a process whose working directory is wd
abspath(wd, x) == normpath(IF isabs(x) THEN x ELSE join(wd, x))

\* ------------------------------------------------------------- filesystem
\* The filesystem holds the root directory and at most one entry, /a.
FsPaths == { << <<"a">> >> }
RegularKinds == {"file_empty", "file_one", "file_garbled"}
LinkKinds == {"link_file", "link_dir", "link_none"}
Kinds == {"none", "dir", "fifo"} \cup RegularKinds \cup LinkKinds

\* the names a path walks through; a run of slashes counts as one
components(p) == SelectSeq(split(p), LAMBDA c : c # <<>>)

\* what lstat finds at p
Lookup(f, p) ==
    LET comps == components(p)
    IN IF comps = <<>> THEN "dir"
       ELSE IF comps \in DOMAIN f THEN f[comps]
       ELSE "none"

islink(f, p) == Lookup(f, p) \in LinkKinds
isfile(f, p) == Lookup(f, p) \in RegularKinds \cup {"link_file"}
exists(f, p) == Lookup(f, p) \notin {"none", "link_none"}

\* --------------------------------------------------------------- messages
\* A ValueError message is (violated rule, path named in the text); a text
\* whose "{}" was never filled names Placeholder instead of a path.
Placeholder == <<"{", "}">>
NoError == [rule |-> "none", path |-> None]
Message(rule, path) == [rule |-> rule, path |-> path]

\* util.value_error_if(cond, msg): raise ValueError(msg) when cond holds
value_error_if(cond, msg) == IF cond THEN msg ELSE NoError

\* statements run in order; the first one that raises ends the call
RECURSIVE FirstRaised(_, _)
FirstRaised(errs, i) ==
    IF i > Len(errs) THEN NoError
    ELSE IF errs[i] # NoError THEN errs[i]
    ELSE FirstRaised(errs, i + 1)

\* the three value_error_if statements of luigibio FileParameter.parse
luigibio_checks(existence, f, absolute_path) ==
    FirstRaised(<<
        value_error_if(islink(f, absolute_path), Message("link", Placeholder)),
        value_error_if(existence = "EXISTING" /\ ~isfile(f, absolute_path),
                       Message("missing", absolute_path)),
        value_error_if(existence = "NON_EXISTING" /\ exists(f, absolute_path),
                       Message("exists", absolute_path)) >>, 1)

\* luigibio FileParameter.parse: the whole method, it stores nothing
luigibio_parse_result(existence, f, wd, x) ==
    LET Checked(absolute_path) ==
            [path |-> absolute_path,
             error |-> luigibio_checks(existence, f, absolute_path)]
    IN Checked(abspath(wd, x))

\* variant: the existence checks run before the link check
FileParameter_checks_link_last(existence, f, absolute_path) ==
    FirstRaised(<<
        value_error_if(existence = "EXISTING" /\ ~isfile(f, absolute_path),
                       Message("missing", absolute_path)),
        value_error_if(existence = "NON_EXISTING" /\ exists(f, absolute_path),
                       Message("exists", absolute_path)),
        value_error_if(islink(f, absolute_path), Message("link", Placeholder)) >>, 1)

\* variant: EXISTING is tested with exists() instead of isfile()
FileParameter_checks_any_object(existence, f, absolute_path) ==
    FirstRaised(<<
        value_error_if(islink(f, absolute_path), Message("link", Placeholder)),
        value_error_if(existence = "EXISTING" /\ ~exists(f, absolute_path),
                       Message("missing", absolute_path)),
        value_error_if(existence = "NON_EXISTING" /\ exists(f, absolute_path),
                       Message("exists", absolute_path)) >>, 1)

\* variant: NON_EXISTING is tested with isfile() instead of exists()
FileParameter_checks_only_files(existence, f, absolute_path) ==
    FirstRaised(<<
        value_error_if(islink(f, absolute_path), Message("link", Placeholder)),
        value_error_if(existence = "EXISTING" /\ ~isfile(f, absolute_path),
                       Message("missing", absolute_path)),
        value_error_if(existence = "NON_EXISTING" /\ isfile(f, absolute_path),
                       Message("exists", absolute_path)) >>, 1)

\* the three value_error_if statements of bioluigi FileParameter.parse
FileParameter_checks(existence, f, absolute_path) ==
    FirstRaised(<<
        value_error_if(islink(f, absolute_path), Message("link", Placeholder)),
        value_error_if(existence = "EXISTING" /\ ~isfile(f, absolute_path),
                       Message("missing", absolute_path)),
        value_error_if(existence = "NON_EXISTING" /\ exists(f, absolute_path),
                       Message("exists", absolute_path)) >>, 1)

\* bioluigi FileParameter.parse up to the last check (before the store)
FileParameter_parse_result(existence, f, wd, x) ==
    LET Checked(absolute_path) ==
            [path |-> absolute_path,
             error |-> FileParameter_checks(existence, f, absolute_path)]
    IN Checked(abspath(wd, x))

\* variant: absolute_path is one attribute shared by every instance
SetAbsolutePath_shared(s, i, p) == [j \in DOMAIN s |-> [s[j] EXCEPT !.absolute_path = p]]

\* self.absolute_path = absolute_path
SetAbsolutePath(s, i, p) == [s EXCEPT ![i].absolute_path = p]

\* variant: the value returned is read before the assignment
FileParameter_store_stale(s, i, p) ==
    [self |-> SetAbsolutePath(s, i, p), ret |-> s[i].absolute_path]

\* self.absolute_path = absolute_path; return self.absolute_path
FileParameter_store(s, i, p) ==
    LET s1 == SetAbsolutePath(s, i, p)
    IN [self |-> s1, ret |-> s1[i].absolute_path]

\* ------------------------------------------------------ sequence content
FASTA == "fasta"
NoCall == [path |-> None, tag |-> "none"]

\* SequenceFileParameter.stats: the arguments handed to from_file
stats(self_path) == [path |-> self_path, tag |-> FASTA]

\* SequenceFileStats.from_file(path, tag): the statistics of a readable
\* sequence file, or an exception
from_file(f, call) ==
    LET k == IF call.path = None THEN "none" ELSE Lookup(f, call.path)
    IN IF call.tag = FASTA /\ k \in {"file_empty", "file_one", "link_file"}
       THEN [raised |-> FALSE, count |-> IF k = "file_empty" THEN 0 ELSE 1]
       ELSE [raised |-> TRUE, count |-> 0]

\* the predicates a declarer may supply
Predicates == {"nonempty", "any"}
predicate(pred, st) == IF pred = "nonempty" THEN st.count > 0 ELSE TRUE

\* the message of the predicate failure, formatted with self.absolute_path
PredicateError(self_path) == Message("predicate", self_path)

\* variant: the "not" in front of the predicate is missing
ContentStage_inverted(pred, f, self_path, local) ==
    LET Decided(call, st, err) ==
            [call |-> call,
             predicate_calls |-> IF st.raised THEN 0 ELSE 1,
             error |-> err,
             ret |-> IF err = NoError THEN local ELSE None]
        Evaluated(call, st) ==
            Decided(call, st,
                    IF st.raised THEN Message("unreadable", None)
                    ELSE value_error_if(predicate(pred, st),
                                        PredicateError(self_path)))
        Called(call) == Evaluated(call, from_file(f, call))
    IN Called(stats(self_path))

\* SequenceFileParameter.parse after super().parse returned: stats(), the
\* predicate, the raise or the return of the local absolute_path
ContentStage(pred, f, self_path, local) ==
    LET Decided(call, st, err) ==
            [call |-> call,
             predicate_calls |-> IF st.raised THEN 0 ELSE 1,
             error |-> err,
             ret |-> IF err = NoError THEN local ELSE None]
        Evaluated(call, st) ==
            Decided(call, st,
                    IF st.raised THEN Message("unreadable", None)
                    ELSE value_error_if(~predicate(pred, st),
                                        PredicateError(self_path)))
        Called(call) == Evaluated(call, from_file(f, call))
    IN Called(stats(self_path))

\* ------------------------------------------------------------------ state
Instances == {"p", "q"}
Threads == {"t1", "t2"}
Existences == {"EXISTING", "NON_EXISTING"}
ROOT == <<SEP>>
DIR_A == <<SEP, "a">>

NoParam == [cls |-> "none", existence |-> "none", predicate |-> "none",
            absolute_path |-> None]
\* FileParameter.__init__, SequenceFileParameter.__init__
Construct(cls, existence, pred) ==
    [cls |-> cls, existence |-> existence, predicate |-> pred,
     absolute_path |-> None]
Configs ==
    {Construct("luigibio.FileParameter", e, "none") : e \in Existences}
    \cup {Construct("FileParameter", e, "none") : e \in Existences}
    \cup {Construct("SequenceFileParameter", "EXISTING", pr) : pr \in Predicates}

NoObservation ==
    [inst |-> "none", path |-> None, outcome |-> "none", ret |-> None,
     msg |-> NoError, accepted |-> FALSE, extractor_calls |-> 0,
     predicate_calls |-> 0, extractor |-> NoCall]

NoPending == [phase |-> "any", inst |-> "none", raw |-> None]

Idle == [pc |-> "idle", inst |-> "none", accepted |-> None, local |-> None,
         extractor |-> NoCall, error |-> NoError, ret |-> None,
         overlapped |-> FALSE]

VARIABLES
    fs,         \* filesystem: what each path of FsPaths holds
    cwd,        \* os.getcwd()
    self,       \* the parameter instances
    last,       \* the most recent parse call since the environment changed
    succeeded,  \* instances on which some parse call has returned
    linkStored, \* instances that stored a path that was a link when checked
    pending,    \* a parse call that is about to be repeated unchanged
    th          \* the parse call each thread is in

vars == <<fs, cwd, self, last, succeeded, linkStored, pending, th>>

EnvOK(f, wd) == wd = ROOT \/ (wd = DIR_A /\ Lookup(f, DIR_A) = "dir")

InitEnv ==
    /\ fs \in [FsPaths -> Kinds]
    /\ cwd \in {ROOT, DIR_A}
    /\ EnvOK(fs, cwd)
    /\ last = NoObservation
    /\ succeeded = {}
    /\ linkStored = {}
    /\ pending = NoPending
    /\ th = [t \in Threads |-> Idle]

\* one parameter instance, p, has been declared
Init ==
    /\ InitEnv
    /\ \E c \in Configs : self = [i \in Instances |-> IF i = "p" THEN c ELSE NoParam]

Observe(i, r, content, ret) ==
    [inst |-> i, path |-> r.path,
     outcome |-> IF r.error # NoError THEN r.error.rule
                 ELSE IF content.error # NoError THEN content.error.rule
                 ELSE "ok",
     ret |-> ret,
     msg |-> IF r.error # NoError THEN r.error ELSE content.error,
     accepted |-> r.error = NoError,
     extractor_calls |-> IF content.call = NoCall THEN 0 ELSE 1,
     predicate_calls |-> content.predicate_calls,
     extractor |-> content.call]

NoContent == [call |-> NoCall, predicate_calls |-> 0, error |-> NoError, ret |-> None]

\* ---------------------------------------------------------------- actions
\* luigibio FileParameter.parse(x)
luigibio_FileParameter_parse(i, x) ==
    /\ self[i].cls = "luigibio.FileParameter"
    /\ LET Done(r) ==
               /\ last' = Observe(i, r, NoContent,
                                  IF r.error = NoError THEN r.path ELSE None)
               /\ succeeded' = IF r.error = NoError THEN succeeded \cup {i}
                               ELSE succeeded
       IN Done(luigibio_parse_result(self[i].existence, fs, cwd, x))
    /\ UNCHANGED <<fs, cwd, self, linkStored, th>>

\* bioluigi FileParameter.parse(x)
FileParameter_parse(i, x) ==
    /\ self[i].cls = "FileParameter"
    /\ LET Done(r) ==
               IF r.error # NoError
               THEN /\ last' = Observe(i, r, NoContent, None)
                    /\ UNCHANGED <<self, succeeded, linkStored>>
               ELSE LET Stored(st) ==
                            /\ self' = st.self
                            /\ last' = Observe(i, r, NoContent, st.ret)
                    IN /\ Stored(FileParameter_store(self, i, r.path))
                       /\ succeeded' = succeeded \cup {i}
                       /\ linkStored' = IF islink(fs, r.path)
                                        THEN linkStored \cup {i} ELSE linkStored
       IN Done(FileParameter_parse_result(self[i].existence, fs, cwd, x))
    /\ UNCHANGED <<fs, cwd, th>>

\* variant: the statistics are taken before the path check has decided
SequenceFileParameter_parse_eager(i, x) ==
    /\ self[i].cls = "SequenceFileParameter"
    /\ LET Done(r) ==
               LET Finished(content) ==
                       /\ last' = Observe(i, r, content,
                                          IF r.error = NoError THEN content.ret ELSE None)
                       /\ succeeded' = IF r.error = NoError /\ content.error = NoError
                                       THEN succeeded \cup {i} ELSE succeeded
               IN /\ Finished(ContentStage(self[i].predicate, fs, r.path, r.path))
                  /\ self' = IF r.error = NoError THEN SetAbsolutePath(self, i, r.path)
                             ELSE self
                  /\ UNCHANGED linkStored
       IN Done(FileParameter_parse_result(self[i].existence, fs, cwd, x))
    /\ UNCHANGED <<fs, cwd, th>>

\* SequenceFileParameter.parse(x)
SequenceFileParameter_parse(i, x) ==
    /\ self[i].cls = "SequenceFileParameter"
    /\ LET Done(r) ==
               IF r.error # NoError
               THEN /\ last' = Observe(i, r, NoContent, None)
                    /\ UNCHANGED <<self, succeeded, linkStored>>
               ELSE LET Finished(content) ==
                            /\ last' = Observe(i, r, content, content.ret)
                            /\ succeeded' = IF content.error = NoError
                                            THEN succeeded \cup {i} ELSE succeeded
                        Stored(st) ==
                            /\ self' = st.self
                            /\ Finished(ContentStage(self[i].predicate, fs,
                                                     st.self[i].absolute_path, st.ret))
                    IN /\ Stored(FileParameter_store(self, i, r.path))
                       /\ linkStored' = IF islink(fs, r.path)
                                        THEN linkStored \cup {i} ELSE linkStored
       IN Done(FileParameter_parse_result(self[i].existence, fs, cwd, x))
    /\ UNCHANGED <<fs, cwd, th>>

\* another process changes what a path holds
FsChange(p, k) ==
    /\ pending.phase = "any"
    /\ fs[p] # k
    /\ EnvOK([fs EXCEPT ![p] = k], cwd)
    /\ fs' = [fs EXCEPT ![p] = k]
    /\ last' = NoObservation
    /\ UNCHANGED <<cwd, self, succeeded, linkStored, pending, th>>

\* the process changes its working directory
ChDir(d) ==
    /\ pending.phase = "any"
    /\ cwd # d
    /\ EnvOK(fs, d)
    /\ cwd' = d
    /\ last' = NoObservation
    /\ UNCHANGED <<fs, self, succeeded, linkStored, pending, th>>

\* a parse call whose input nobody records
ParseLuigibio(i, x) ==
    /\ pending.phase = "any"
    /\ luigibio_FileParameter_parse(i, x)
    /\ UNCHANGED pending

ParseFile(i, x) ==
    /\ pending.phase = "any"
    /\ FileParameter_parse(i, x)
    /\ UNCHANGED pending

ParseSequence(i, x) ==
    /\ pending.phase = "any"
    /\ SequenceFileParameter_parse(i, x)
    /\ UNCHANGED pending

Next ==
    \/ \E i \in Instances, x \in Raw : ParseLuigibio(i, x)
    \/ \E i \in Instances, x \in Raw : ParseFile(i, x)
    \/ \E i \in Instances, x \in Raw : ParseSequence(i, x)
    \/ \E p \in FsPaths, k \in Kinds : FsChange(p, k)
    \/ \E d \in {ROOT, DIR_A} : ChDir(d)

Spec == Init /\ [][Next]_vars

\* ------------------------------------------- the same call made twice
\* parse(x) on instance i, whichever class i has
Call(i, x) ==
    \/ luigibio_FileParameter_parse(i, x)
    \/ FileParameter_parse(i, x)
    \/ SequenceFileParameter_parse(i, x)

\* the first of two calls with the same input
FirstCall(i, x) ==
    /\ pending.phase = "any"
    /\ Call(i, x)
    /\ pending' = [phase |-> "first", inst |-> i, raw |-> x]

\* the second one, made before anything else happens
SecondCall ==
    /\ pending.phase = "first"
    /\ Call(pending.inst, pending.raw)
    /\ pending' = [pending EXCEPT !.phase = "second"]

NextIdem ==
    \/ \E i \in Instances, x \in Raw : ParseLuigibio(i, x)
    \/ \E i \in Instances, x \in Raw : ParseFile(i, x)
    \/ \E i \in Instances, x \in Raw : ParseSequence(i, x)
    \/ \E p \in FsPaths, k \in Kinds : FsChange(p, k)
    \/ \E d \in {ROOT, DIR_A} : ChDir(d)
    \/ \E i \in Instances, x \in Raw : FirstCall(i, x)
    \/ SecondCall

SpecIdem == Init /\ [][NextIdem]_vars

\* --------------------------------------- two threads, step by step
\* both instances are SequenceFileParameters
InitConc ==
    /\ InitEnv
    /\ \E pr \in Predicates :
          self = [i \in Instances |-> Construct("SequenceFileParameter", "EXISTING", pr)]

\* another call stored into instance i while the call of thread u, already
\* past its own store, has not finished
Overlap(u, i) ==
    IF th[u].inst = i /\ th[u].pc \in {"stored", "returned", "evaluated"}
    THEN [th[u] EXCEPT !.overlapped = TRUE]
    ELSE th[u]

\* FileParameter.parse up to and including self.absolute_path = absolute_path
T_PathCheck(t, i, x) ==
    /\ th[t].pc = "idle"
    /\ LET Done(r) ==
               IF r.error # NoError
               THEN \* a rejected call is over; its thread keeps the violated rule
                    /\ th' = [th EXCEPT ![t] = [Idle EXCEPT !.pc = "done", !.inst = i,
                                                             !.error = Message(r.error.rule, None)]]
                    /\ UNCHANGED self
               ELSE /\ self' = SetAbsolutePath(self, i, r.path)
                    /\ th' = [u \in Threads |->
                                IF u = t
                                THEN [Idle EXCEPT !.pc = "stored", !.inst = i,
                                                  !.accepted = r.path]
                                ELSE Overlap(u, i)]
       IN Done(FileParameter_parse_result(self[i].existence, fs, cwd, x))
    /\ UNCHANGED <<fs, cwd, last, succeeded, linkStored, pending>>

\* return self.absolute_path, bound to the caller's local absolute_path
T_SuperReturn(t) ==
    /\ th[t].pc = "stored"
    /\ th' = [th EXCEPT ![t].pc = "returned",
                        ![t].local = self[th[t].inst].absolute_path]
    /\ UNCHANGED <<fs, cwd, self, last, succeeded, linkStored, pending>>

\* self.predicate(self.stats())
T_Stats(t) ==
    /\ th[t].pc = "returned"
    /\ LET Done(content) ==
               th' = [th EXCEPT ![t].pc = "evaluated",
                                ![t].extractor = content.call,
                                ![t].error = content.error,
                                ![t].ret = content.ret]
       IN Done(ContentStage(self[th[t].inst].predicate, fs,
                            self[th[t].inst].absolute_path, th[t].local))
    /\ UNCHANGED <<fs, cwd, self, last, succeeded, linkStored, pending>>

\* the message is formatted with self.absolute_path; raise, or return the local
T_Finish(t) ==
    /\ th[t].pc = "evaluated"
    /\ th' = [th EXCEPT ![t].pc = "done",
                        ![t].error =
                            IF th[t].error.rule = "predicate"
                            THEN PredicateError(self[th[t].inst].absolute_path)
                            ELSE th[t].error]
    /\ UNCHANGED <<fs, cwd, self, last, succeeded, linkStored, pending>>

\* the thread is free for its next call
T_Next(t) ==
    /\ th[t].pc = "done"
    /\ th' = [th EXCEPT ![t] = Idle]
    /\ UNCHANGED <<fs, cwd, self, last, succeeded, linkStored, pending>>

NextConc ==
    \/ \E t \in Threads, i \in Instances, x \in Raw : T_PathCheck(t, i, x)
    \/ \E t \in Threads : T_SuperReturn(t)
    \/ \E t \in Threads : T_Stats(t)
    \/ \E t \in Threads : T_Finish(t)
    \/ \E t \in Threads : T_Next(t)

SpecConc == InitConc /\ [][NextConc]_vars

\* ----------------------------------------------------------------- claims
PlainClasses == {"FileParameter", "luigibio.FileParameter"}
StoringClasses == {"FileParameter", "SequenceFileParameter"}
PathFailures == {"link", "missing", "exists"}
IsNormalizedAbsolute(p) == isabs(p) /\ normpath(p) = p
Called == last.outcome # "none"
LastParam == self[last.inst]

\* C1: a call whose normalized absolute path is a symbolic link fails with
\* the link error, under EXISTING and under NON_EXISTING, whatever the link
\* points to; it never fails with the existence or the absence error.
LinkRejectedFirst ==
    (Called /\ islink(fs, last.path)) =>
        /\ last.outcome = "link"
        /\ last.msg.rule = "link"
        /\ last.ret = None
        /\ ~last.accepted

\* a link to a regular file was rejected although EXISTING would accept its target
LinkRejectedWitness ==
    /\ Called
    /\ last.outcome = "link"
    /\ Lookup(fs, last.path) = "link_file"
    /\ LastParam.existence = "EXISTING"

\* C2: for a path that is not a link, FileParameter.parse with EXISTING
\* returns the normalized absolute path exactly when the path names an
\* existing regular file, and fails with the missing-file error otherwise.
ExistingIffRegularFile ==
    (/\ Called
     /\ LastParam.cls \in PlainClasses
     /\ LastParam.existence = "EXISTING"
     /\ ~islink(fs, last.path)) =>
        /\ (last.outcome = "ok") <=> (Lookup(fs, last.path) \in RegularKinds)
        /\ last.outcome = "ok" =>
              (last.ret = last.path /\ IsNormalizedAbsolute(last.path))
        /\ last.outcome # "ok" => (last.outcome = "missing" /\ last.ret = None)

\* an existing regular file was accepted under EXISTING
ExistingWitness ==
    /\ Called
    /\ LastParam.cls = "FileParameter"
    /\ LastParam.existence = "EXISTING"
    /\ Lookup(fs, last.path) \in RegularKinds
    /\ last.outcome = "ok"

\* C3: for a path that is not a link, FileParameter.parse with NON_EXISTING
\* returns the normalized absolute path exactly when nothing exists at the
\* path, and fails with the must-not-exist error otherwise.
NonExistingIffNothing ==
    (/\ Called
     /\ LastParam.cls \in PlainClasses
     /\ LastParam.existence = "NON_EXISTING"
     /\ ~islink(fs, last.path)) =>
        /\ (last.outcome = "ok") <=> (Lookup(fs, last.path) = "none")
        /\ last.outcome = "ok" =>
              (last.ret = last.path /\ IsNormalizedAbsolute(last.path))
        /\ last.outcome # "ok" => (last.outcome = "exists" /\ last.ret = None)

\* an existing directory was rejected under NON_EXISTING
NonExistingWitness ==
    /\ Called
    /\ LastParam.cls = "FileParameter"
    /\ LastParam.existence = "NON_EXISTING"
    /\ Lookup(fs, last.path) = "dir"
    /\ last.outcome = "exists"

\* C4: in a SequenceFileParameter.parse call the extractor and the predicate
\* run at most once, only after the path check of the call accepted and
\* stored the path; a rejected path means no extractor and no predicate call.
ContentOnlyAfterPathCheck ==
    (Called /\ LastParam.cls = "SequenceFileParameter") =>
        /\ last.extractor_calls <= 1
        /\ last.predicate_calls <= 1
        /\ last.outcome \in PathFailures =>
              (last.extractor_calls = 0 /\ last.predicate_calls = 0)
        /\ last.extractor_calls = 1 =>
              (last.accepted /\ LastParam.absolute_path = last.path)
        /\ last.predicate_calls = 1 => last.extractor_calls = 1

\* a SequenceFileParameter rejected a path without touching the content
ContentSkippedWitness ==
    /\ Called
    /\ LastParam.cls = "SequenceFileParameter"
    /\ last.outcome = "missing"
    /\ last.extractor_calls = 0

\* C5: after a parse call that failed, the instance stores no resolved path.
NoPartialSuccess ==
    (Called /\ last.outcome # "ok" /\ LastParam.cls \in StoringClasses) =>
        LastParam.absolute_path = None

\* C6: absolute_path is set exactly when some parse call on the instance has
\* succeeded, and a set path is a normalized absolute path that was not a
\* link when it was checked.
StoredIffSucceeded ==
    \A i \in Instances :
        self[i].cls \in StoringClasses =>
            /\ (self[i].absolute_path # None) <=> (i \in succeeded)
            /\ self[i].absolute_path # None =>
                  (IsNormalizedAbsolute(self[i].absolute_path) /\ i \notin linkStored)

\* C7: once the path check accepted, the extractor is called with the
\* accepted path and the tag 'fasta'; a false predicate rejects the call with
\* the predicate error, a true one returns the accepted path, and the stored
\* path stays the accepted path.
ContentVerdict ==
    (Called /\ LastParam.cls = "SequenceFileParameter" /\ last.accepted) =>
        /\ last.extractor = [path |-> last.path, tag |-> FASTA]
        /\ LastParam.absolute_path = last.path
        /\ ~from_file(fs, last.extractor).raised =>
              IF predicate(LastParam.predicate, from_file(fs, last.extractor))
              THEN last.outcome = "ok" /\ last.ret = last.path
              ELSE /\ last.outcome = "predicate"
                   /\ last.msg.rule = "predicate"
                   /\ last.ret = None

\* a file without sequences was rejected by the nonempty predicate
ContentVerdictWitness ==
    /\ Called
    /\ LastParam.cls = "SequenceFileParameter"
    /\ LastParam.predicate = "nonempty"
    /\ Lookup(fs, last.path) = "file_empty"
    /\ last.outcome = "predicate"

\* C8: a parse call repeated on the same instance with the same input, with
\* nothing changed in between, ends as the first one did: same outcome, same
\* error, same returned path, same stored path.
RepeatedCallAgrees ==
    [][pending.phase = "first" =>
          /\ last'.outcome = last.outcome
          /\ last'.msg = last.msg
          /\ last'.ret = last.ret
          /\ last'.path = last.path
          /\ self'[pending.inst].absolute_path = self[pending.inst].absolute_path]_vars

\* the second of two equal calls has returned a path
RepeatedCallWitness ==
    /\ pending.phase = "second"
    /\ last.outcome = "ok"
    /\ last.ret # None

\* C9: the message of every failure (link, missing, exists, predicate) names
\* the normalized absolute path; no message keeps an unfilled placeholder.
MessageNamesPath ==
    (Called /\ last.outcome \in PathFailures \cup {"predicate"}) =>
        (last.msg.path # Placeholder /\ last.msg.path = last.path)

\* C10: a call hands the extractor, or gets back from the path check, a
\* path other than the one its own check accepted only if another call
\* stored into the same instance in the meantime; that race is reachable.
OwnPathUnlessOverlapped ==
    \A t \in Threads :
        /\ (th[t].extractor # NoCall /\ th[t].extractor.path # th[t].accepted)
              => th[t].overlapped
        /\ (th[t].pc \in {"returned", "evaluated"} /\ th[t].local # th[t].accepted)
              => th[t].overlapped

\* a call returned its own accepted path after the extractor read another one
RaceWitness ==
    \E t \in Threads :
        /\ th[t].pc = "done"
        /\ th[t].error = NoError
        /\ th[t].ret = th[t].accepted
        /\ th[t].extractor # NoCall
        /\ th[t].extractor.path # th[t].accepted
====
